---- MODULE Spec2Model ----
(***************************************************************************)
(* Event / RSVP backend: the service layer (EventService, RSVPService)     *)
(* over the two document collections `events` and `rsvps`.                 *)
(*                                                                         *)
(* Every request is a task.  A task's step is one store operation (one     *)
(* `await self.db...`) together with the synchronous code around it, so    *)
(* tasks interleave exactly at the awaits of the source.                   *)
(*                                                                         *)
(* Values.  A string is a tuple of characters.  None is the empty tuple:   *)
(* every schema-validated string has min_length 1, so None differs from    *)
(* every value.  A datetime is <<ms, us, aware>>: the instant in whole     *)
(* milliseconds, the sub-millisecond remainder and whether it carries a    *)
(* tzinfo.  "A document or None" (find_one) is a set of at most one        *)
(* document.  An identifier string is [wf, oid, upper]: whether it is 24   *)
(* hex digits, the 12 bytes they spell, and whether the hex letters are    *)
(* written in upper case.  An optional query string is [given, s]: whether *)
(* the parameter was sent, and its characters.                             *)
(***************************************************************************)
EXTENDS Integers, Sequences, FiniteSets, TLC

VARIABLES events, rsvps, nextOid, pc, arg, loc, pre, resp

vars == <<events, rsvps, nextOid, pc, arg, loc, pre, resp>>

\* ------------------------------------------------------------------ bounds

\* ObjectIds the store generates in one behaviour.
MaxOid == 3

\* Events stored at one time.
MaxEvents == 2

\* How far below and above a result cap the number of stored documents goes.
Slack == 2

\* The request tasks that may be in flight together.
Tasks == {"t1", "t2"}

\* ------------------------------------------------------------------ values

None == <<>>

EventFields == {"title", "description", "date", "category"}

\* An identifier string as a client may send it.
IdStr(n, up) == [wf |-> TRUE, oid |-> n, upper |-> up]

\* A string that is not 24 hex digits.
Malformed == [wf |-> FALSE, oid |-> 0, upper |-> FALSE]

\* A format check that accepts every string.
ObjectId_is_valid_any(s) == TRUE

\* bson.ObjectId.is_valid: 24 hex digits, in either letter case.
ObjectId_is_valid(s) == s.wf

\* bson.ObjectId(s): the 12 bytes; the letter case of the spelling is lost.
ObjectId(s) == s.oid

\* str(ObjectId): always the lower-case spelling.
ObjectId_str(oid) == IdStr(oid, FALSE)

\* The BSON datetime the driver writes and reads back: whole milliseconds,
\* converted to UTC, and decoded naive (the client is built without tz_aware).
BsonDatetime(d) == IF d = None THEN None ELSE <<d[1], 0, 0>>

\* The document as the store holds it: strings as given, datetimes as BSON.
BsonEncode(doc) ==
    [f \in DOMAIN doc |->
        IF f \in {"date", "created_at"} THEN BsonDatetime(doc[f]) ELSE doc[f]]

\* ------------------------------------------------------------- the store

\* A lookup that finds nothing.
find_one_by_id_none(coll, oid) == {}

\* find_one({"_id": oid}): the document, or None (the empty set).
find_one_by_id(coll, oid) == {d \in coll : d._id = oid}

\* An insert under a unique index on (email, event_id): a duplicate is not
\* written.
insert_one_unique(coll, oid, doc) ==
    IF /\ "email" \in DOMAIN doc
       /\ \E d \in coll : d.email = doc.email /\ d.event_id = doc.event_id
      THEN coll
      ELSE coll \cup {[f \in DOMAIN doc \cup {"_id"} |->
                         IF f = "_id" THEN oid ELSE BsonEncode(doc)[f]]}

\* An insert whose _id is the lowest one no stored document has.
insert_one_reusing(coll, oid, doc) ==
    LET free == CHOOSE n \in 1..oid :
                    /\ \A d \in coll : d._id # n
                    /\ \A m \in 1..(n - 1) : \E d \in coll : d._id = m
    IN  coll \cup {[f \in DOMAIN doc \cup {"_id"} |->
                      IF f = "_id" THEN free ELSE BsonEncode(doc)[f]]}

\* An insert under a rule that no two documents have equal fields: a
\* document equal to a stored one is not written.
insert_one_distinct(coll, oid, doc) ==
    IF \E d \in coll : \A f \in DOMAIN doc : d[f] = BsonEncode(doc)[f]
      THEN coll
      ELSE coll \cup {[f \in DOMAIN doc \cup {"_id"} |->
                         IF f = "_id" THEN oid ELSE BsonEncode(doc)[f]]}

\* insert_one: the driver adds the generated _id and writes the document.
insert_one(coll, oid, doc) ==
    coll \cup {[f \in DOMAIN doc \cup {"_id"} |->
                  IF f = "_id" THEN oid ELSE BsonEncode(doc)[f]]}

\* An update with upsert: a document is inserted when none matches.
update_one_upsert(coll, oid, update_data) ==
    IF \E d \in coll : d._id = oid
      THEN {IF d._id = oid
              THEN [f \in DOMAIN d |->
                      IF f \in DOMAIN update_data
                        THEN BsonEncode(update_data)[f] ELSE d[f]]
              ELSE d : d \in coll}
      ELSE coll \cup {[f \in EventFields \cup {"_id"} |->
                         IF f = "_id" THEN oid
                         ELSE IF f \in DOMAIN update_data
                           THEN BsonEncode(update_data)[f] ELSE None]}

\* An update that ignores its filter and changes every document.
update_many_set(coll, oid, data) ==
    {[f \in DOMAIN d |-> IF f \in DOMAIN data THEN data[f] ELSE d[f]] : d \in coll}

\* update_one(filter by _id, {"$set": update_data}): only the keys of
\* update_data are written, every other key keeps its value.
update_one_set(coll, oid, update_data) ==
    {IF d._id = oid
       THEN [f \in DOMAIN d |->
               IF f \in DOMAIN update_data
                 THEN BsonEncode(update_data)[f] ELSE d[f]]
       ELSE d : d \in coll}

\* A delete whose filter matches every document.
delete_many_all(coll, oid) == {}

\* delete_one({"_id": oid}).
delete_one_by_id(coll, oid) == {d \in coll : d._id # oid}

\* A filter that compares event_id as the identifier it spells.
MatchesEventId_any_spelling(r, event_id) == r.event_id.oid = event_id.oid

\* The filter {"event_id": event_id}: equality of the stored string with the
\* string given, spelling included.
MatchesEventId(r, event_id) == r.event_id = event_id

\* A cascade that deletes one matching RSVP only (delete_one).
delete_first_by_event_id(coll, event_id) ==
    IF \E r \in coll : MatchesEventId(r, event_id)
      THEN coll \ {CHOOSE r \in coll : MatchesEventId(r, event_id)}
      ELSE coll

\* A cascade that deletes nothing.
delete_many_none(coll, event_id) == coll

\* A cascade that empties the collection.
delete_many_every(coll, event_id) == {}

\* delete_many({"event_id": event_id}).
delete_many_by_event_id(coll, event_id) ==
    {r \in coll : ~MatchesEventId(r, event_id)}

\* The filter {"email": email, "event_id": event_id} of the duplicate check.
MatchesEmailAndEvent(r, email, event_id) ==
    r.email = email /\ r.event_id = event_id

\* A duplicate check that queries event_id as an ObjectId: no stored string
\* equals it.
find_one_duplicate_typed(coll, email, event_id) == {}

\* A duplicate check on the email alone, whatever the event.
find_one_duplicate_by_email(coll, email, event_id) ==
    {d \in coll : d.email = email}

\* find_one({"email": ..., "event_id": ...}).
find_one_duplicate(coll, email, event_id) ==
    {r \in coll : MatchesEmailAndEvent(r, email, event_id)}

\* The lower-case letter of each upper-case letter in use.
LowerCase ==
    [A |-> "a", F |-> "f", L |-> "l", M |-> "m", P |-> "p", T |-> "t", W |-> "w"]

Lower(c) == IF c \in DOMAIN LowerCase THEN LowerCase[c] ELSE c

\* The store compiles the pattern it is given; an unbalanced "(" is rejected.
regex_valid(pattern) == \A k \in 1..Len(pattern) : pattern[k] # "("

\* One pattern character against one character, under option "i": "." is any
\* character but a newline, every other character is itself in either case.
regex_atom(p, c) == IF p = "." THEN c # "\n" ELSE Lower(p) = Lower(c)

\* The pattern from its k-th character on matches s from position i on: "^"
\* holds at the start, "$" at the end or before a final newline, and every
\* other pattern character consumes one character of s.
RECURSIVE regex_match_from(_, _, _, _)
regex_match_from(pattern, k, s, i) ==
    IF k > Len(pattern) THEN TRUE
    ELSE IF pattern[k] = "^"
      THEN i = 1 /\ regex_match_from(pattern, k + 1, s, i)
    ELSE IF pattern[k] = "$"
      THEN /\ \/ i = Len(s) + 1
              \/ i = Len(s) /\ s[i] = "\n"
           /\ regex_match_from(pattern, k + 1, s, i)
    ELSE /\ i <= Len(s)
         /\ regex_atom(pattern[k], s[i])
         /\ regex_match_from(pattern, k + 1, s, i + 1)

\* {"$regex": pattern, "$options": "i"} on a field value: the pattern matches
\* somewhere in the string; a null field matches no pattern.
regex_search(pattern, s) ==
    /\ s # None
    /\ \E i \in 1..(Len(s) + 1) : regex_match_from(pattern, 1, s, i)

\* The documents of a cursor whose _id lies in lo..hi, in the store's natural
\* order: the order of insertion, which is the order of the generated _id.
RECURSIVE in_natural_order(_, _, _)
in_natural_order(cursor, lo, hi) ==
    IF lo > hi THEN <<>>
    ELSE IF lo = hi
      THEN LET found == {d \in cursor : d._id = lo}
           IN  IF found = {} THEN <<>> ELSE <<CHOOSE d \in found : TRUE>>
    ELSE LET mid == (lo + hi) \div 2
         IN  in_natural_order(cursor, lo, mid) \o in_natural_order(cursor, mid + 1, hi)

\* The greatest _id of a cursor that is not empty.
LastId(cursor) ==
    CHOOSE i \in {d._id : d \in cursor} : \A d \in cursor : d._id <= i

\* A cursor read to its end, whatever the length asked for.
to_list_all(cursor, length) ==
    IF cursor = {} THEN <<>> ELSE in_natural_order(cursor, 0, LastId(cursor))

\* cursor.to_list(length): the first `length` documents of the cursor.
to_list(cursor, length) ==
    LET all == IF cursor = {} THEN <<>>
               ELSE in_natural_order(cursor, 0, LastId(cursor))
    IN  SubSeq(all, 1, IF Len(all) < length THEN Len(all) ELSE length)

\* An optional query string: not sent, or sent with these characters.
NotGiven == [given |-> FALSE, s |-> <<>>]

Given(s) == [given |-> TRUE, s |-> s]

\* A test for `is not None`: the empty string counts as a filter.
Truthy_not_none(o) == o.given

\* `if category:` - the parameter was sent and is not the empty string.
Truthy(o) == o.given /\ o.s # <<>>

\* ------------------------------------------------------ results of a call

NoRet == [kind |-> "none", code |-> 0, detail |-> "", body |-> {}]

\* `return body`.
Return(body) == [kind |-> "return", code |-> 0, detail |-> "", body |-> body]

\* `raise HTTPException(status_code=code, detail=detail)`.
Raise(code, detail) ==
    [kind |-> "HTTPException", code |-> code, detail |-> detail, body |-> {}]

\* An exception that is no HTTPException: logged and re-raised unchanged.
RaiseOther(type) == [kind |-> type, code |-> 0, detail |-> "", body |-> {}]

NoArg == <<>>
NoLoc == [inserted_id |-> 0]
NoPre == [events |-> {}, rsvps |-> {}]

\* -------------------------------------------------------------- the state
\* events, rsvps: the two collections, sets of documents.
\* nextOid:       the next ObjectId the driver generates.
\* pc, arg, loc:  per task, the await it is suspended at ("idle": none), the
\*                arguments of its call and the call's local variables.
\* pre:           per task, the store as its call found it.
\* resp:          the response the last step delivered, if it ended a call:
\*                who called, which operation, with what arguments, the
\*                store the call found, and its outcome.

Store == [events |-> events, rsvps |-> rsvps]

NoResp == [task |-> "none", op |-> "none", arg |-> NoArg, pre |-> NoPre, ret |-> NoRet]

Init ==
    /\ events = {}
    /\ rsvps = {}
    /\ nextOid = 1
    /\ pc = [t \in Tasks |-> "idle"]
    /\ arg = [t \in Tasks |-> NoArg]
    /\ loc = [t \in Tasks |-> NoLoc]
    /\ pre = [t \in Tasks |-> NoPre]
    /\ resp = NoResp

\* The call suspends at its first await.  `before` is the store as the call
\* found it, for the specifications that keep it, and NoPre for the others.
Await(t, label, a, l, before) ==
    /\ pc' = [pc EXCEPT ![t] = label]
    /\ arg' = [arg EXCEPT ![t] = a]
    /\ loc' = [loc EXCEPT ![t] = l]
    /\ pre' = [pre EXCEPT ![t] = before]
    /\ resp' = NoResp

\* The call suspends at a later await.
Goto(t, label, l) ==
    /\ pc' = [pc EXCEPT ![t] = label]
    /\ loc' = [loc EXCEPT ![t] = l]
    /\ resp' = NoResp
    /\ UNCHANGED <<arg, pre>>

\* The call ends, with a result or an exception, and the task is free again.
Respond(t, name, a, before, r) ==
    /\ pc' = [pc EXCEPT ![t] = "idle"]
    /\ arg' = [arg EXCEPT ![t] = NoArg]
    /\ loc' = [loc EXCEPT ![t] = NoLoc]
    /\ pre' = [pre EXCEPT ![t] = NoPre]
    /\ resp' = [task |-> t, op |-> name, arg |-> a, pre |-> before, ret |-> r]

\* A call that ends at its first await, or before it.
Finish(t, name, a, r) == Respond(t, name, a, Store, r)

\* A call that ends after a later await.
FinishLater(t, name, r) == Respond(t, name, arg[t], pre[t], r)

\* ----------------------------------------------------------- EventService

\* event.model_dump(): the four fields as given.
EventCreate_model_dump(event) == [f \in EventFields |-> event[f]]

\* create_event up to the await of insert_one.
create_event(t, event, before) ==
    /\ pc[t] = "idle"
    /\ nextOid <= MaxOid
    /\ Cardinality(events) < MaxEvents
    /\ events' = insert_one(events, nextOid, EventCreate_model_dump(event))
    /\ nextOid' = nextOid + 1
    /\ Await(t, "create_event_find", event, [inserted_id |-> nextOid], before)
    /\ UNCHANGED rsvps

\* A read-back that returns what it found, a missing record included.
create_event_find_unchecked(t) ==
    /\ pc[t] = "create_event_find"
    /\ FinishLater(t, "create_event",
                   Return(find_one_by_id(events, loc[t].inserted_id)))
    /\ UNCHANGED <<events, rsvps, nextOid>>

\* create_event: the read-back.
create_event_find(t) ==
    /\ pc[t] = "create_event_find"
    /\ LET created_event == find_one_by_id(events, loc[t].inserted_id)
       IN  IF created_event = {}
             THEN FinishLater(t, "create_event", Raise(500, "Failed to create event"))
             ELSE FinishLater(t, "create_event", Return(created_event))
    /\ UNCHANGED <<events, rsvps, nextOid>>

\* The query of get_all_events: a regex per filter that is given, anchored
\* for category and bare for title, each built from the argument as it is.
EventQuery(category, title) ==
    [f \in {g \in {"category", "title"} :
               Truthy(IF g = "category" THEN category ELSE title)} |->
        IF f = "category" THEN <<"^">> \o category.s \o <<"$">> ELSE title.s]

\* A find that takes the filters of a query as alternatives.
find_regex_any(coll, query) ==
    {d \in coll : \E f \in DOMAIN query : regex_search(query[f], d[f])}

\* find(query): the documents that match every regex of the query.
find_regex(coll, query) ==
    {d \in coll : \A f \in DOMAIN query : regex_search(query[f], d[f])}

\* get_all_events: one find; a pattern the store rejects is an error of the
\* store, logged and re-raised.
get_all_events(t, category, title) ==
    /\ pc[t] = "idle"
    /\ LET a == [category |-> category, title |-> title]
           query == EventQuery(category, title)
       IN  IF \E f \in DOMAIN query : ~regex_valid(query[f])
             THEN Finish(t, "get_all_events", a, RaiseOther("OperationFailure"))
             ELSE Finish(t, "get_all_events", a,
                         Return(to_list(find_regex(events, query), 100)))
    /\ UNCHANGED <<events, rsvps, nextOid>>

get_event_by_id(t, event_id) ==
    /\ pc[t] = "idle"
    /\ LET a == [id |-> event_id]
           event == find_one_by_id(events, ObjectId(event_id))
       IN  IF ~ObjectId_is_valid(event_id)
             THEN Finish(t, "get_event_by_id", a, Raise(400, "Invalid event ID format"))
           ELSE IF event = {}
             THEN Finish(t, "get_event_by_id", a, Raise(404, "Event not found"))
           ELSE Finish(t, "get_event_by_id", a, Return(event))
    /\ UNCHANGED <<events, rsvps, nextOid>>

\* event_update.model_dump(exclude_unset=True): the fields the request set,
\* a field set to null included.
EventUpdate_model_dump(event_update) == event_update

\* An update that never rejects an empty patch.
NoFieldsToUpdate_never(update_data) == FALSE

\* `if not update_data`.
NoFieldsToUpdate(update_data) == DOMAIN update_data = {}

\* update_event up to the await of update_one, which matched or did not.
update_event(t, event_id, event_update, before) ==
    /\ pc[t] = "idle"
    /\ LET a == [id |-> event_id, patch |-> event_update]
           update_data == EventUpdate_model_dump(event_update)
           matched == find_one_by_id(events, ObjectId(event_id))
       IN  IF ~ObjectId_is_valid(event_id)
             THEN /\ Finish(t, "update_event", a, Raise(400, "Invalid event ID format"))
                  /\ UNCHANGED events
           ELSE IF NoFieldsToUpdate(update_data)
             THEN /\ Finish(t, "update_event", a, Raise(400, "No fields to update"))
                  /\ UNCHANGED events
           ELSE IF matched = {}
             THEN /\ events' = update_one_set(events, ObjectId(event_id), update_data)
                  /\ Finish(t, "update_event", a, Raise(404, "Event not found"))
           ELSE /\ events' = update_one_set(events, ObjectId(event_id), update_data)
                /\ Await(t, "update_event_find", a, NoLoc, before)
    /\ UNCHANGED <<rsvps, nextOid>>

\* update_event: the re-read; what it finds is returned as it is.
update_event_find(t) ==
    /\ pc[t] = "update_event_find"
    /\ FinishLater(t, "update_event",
                   Return(find_one_by_id(events, ObjectId(arg[t].id))))
    /\ UNCHANGED <<events, rsvps, nextOid>>

\* A delete_event that removes the event and its RSVPs in one store operation.
delete_event_atomic(t, event_id, before) ==
    /\ pc[t] = "idle"
    /\ LET a == [id |-> event_id]
       IN  IF ~ObjectId_is_valid(event_id)
             THEN /\ Finish(t, "delete_event", a, Raise(400, "Invalid event ID format"))
                  /\ UNCHANGED <<events, rsvps>>
           ELSE IF find_one_by_id(events, ObjectId(event_id)) = {}
             THEN /\ Finish(t, "delete_event", a, Raise(404, "Event not found"))
                  /\ UNCHANGED <<events, rsvps>>
           ELSE /\ events' = delete_one_by_id(events, ObjectId(event_id))
                /\ rsvps' = {r \in rsvps : r.event_id # event_id}
                /\ Finish(t, "delete_event", a,
                          Return([event_id |-> event_id,
                                  rsvps_deleted |-> Cardinality(rsvps) - Cardinality(rsvps')]))
    /\ UNCHANGED nextOid

\* A delete_event that runs the cascade before it reports the missing event.
delete_event_cascade_first(t, event_id, before) ==
    /\ pc[t] = "idle"
    /\ LET a == [id |-> event_id]
       IN  IF ~ObjectId_is_valid(event_id)
             THEN /\ Finish(t, "delete_event", a, Raise(400, "Invalid event ID format"))
                  /\ UNCHANGED <<events, rsvps>>
           ELSE IF find_one_by_id(events, ObjectId(event_id)) = {}
             THEN /\ Finish(t, "delete_event", a, Raise(404, "Event not found"))
                  /\ rsvps' = delete_many_by_event_id(rsvps, event_id)
                  /\ UNCHANGED events
           ELSE /\ events' = delete_one_by_id(events, ObjectId(event_id))
                /\ Await(t, "delete_event_cascade", a, NoLoc, before)
                /\ UNCHANGED rsvps
    /\ UNCHANGED nextOid

\* delete_event up to the await of delete_one, which deleted or did not.
delete_event(t, event_id, before) ==
    /\ pc[t] = "idle"
    /\ LET a == [id |-> event_id]
       IN  IF ~ObjectId_is_valid(event_id)
             THEN /\ Finish(t, "delete_event", a, Raise(400, "Invalid event ID format"))
                  /\ UNCHANGED events
           ELSE IF find_one_by_id(events, ObjectId(event_id)) = {}
             THEN /\ Finish(t, "delete_event", a, Raise(404, "Event not found"))
                  /\ UNCHANGED events
           ELSE /\ events' = delete_one_by_id(events, ObjectId(event_id))
                /\ Await(t, "delete_event_cascade", a, NoLoc, before)
    /\ UNCHANGED <<rsvps, nextOid>>

\* delete_event: the cascade, delete_many on rsvps by the string given.
delete_event_cascade(t) ==
    /\ pc[t] = "delete_event_cascade"
    /\ rsvps' = delete_many_by_event_id(rsvps, arg[t].id)
    /\ FinishLater(t, "delete_event",
                   Return([event_id |-> arg[t].id,
                           rsvps_deleted |-> Cardinality(rsvps) - Cardinality(rsvps')]))
    /\ UNCHANGED <<events, nextOid>>

\* ------------------------------------------------------------ RSVPService

\* rsvp.model_dump() plus the created_at the service stamps.
RSVPCreate_model_dump(rsvp, now) ==
    [user_name |-> rsvp.user_name, email |-> rsvp.email,
     event_id |-> rsvp.event_id, created_at |-> now]

\* A create_rsvp that looks for the duplicate before it looks for the event.
create_rsvp_duplicate_first(t, rsvp, before) ==
    /\ pc[t] = "idle"
    /\ IF ~ObjectId_is_valid(rsvp.event_id)
         THEN Finish(t, "create_rsvp", rsvp, Raise(400, "Invalid event ID format"))
       ELSE IF find_one_duplicate(rsvps, rsvp.email, rsvp.event_id) # {}
         THEN Finish(t, "create_rsvp", rsvp,
                     Raise(400, "You have already RSVP'd to this event"))
       ELSE IF find_one_by_id(events, ObjectId(rsvp.event_id)) = {}
         THEN Finish(t, "create_rsvp", rsvp, Raise(404, "Event not found"))
       ELSE Await(t, "create_rsvp_duplicate", rsvp, NoLoc, before)
    /\ UNCHANGED <<events, rsvps, nextOid>>

\* create_rsvp up to the await of the event lookup.
create_rsvp(t, rsvp, before) ==
    /\ pc[t] = "idle"
    /\ IF ~ObjectId_is_valid(rsvp.event_id)
         THEN Finish(t, "create_rsvp", rsvp, Raise(400, "Invalid event ID format"))
       ELSE IF find_one_by_id(events, ObjectId(rsvp.event_id)) = {}
         THEN Finish(t, "create_rsvp", rsvp, Raise(404, "Event not found"))
       ELSE Await(t, "create_rsvp_duplicate", rsvp, NoLoc, before)
    /\ UNCHANGED <<events, rsvps, nextOid>>

\* A duplicate check that reports the duplicate as 409.
create_rsvp_duplicate_409(t) ==
    /\ pc[t] = "create_rsvp_duplicate"
    /\ LET existing_rsvp == find_one_duplicate(rsvps, arg[t].email, arg[t].event_id)
       IN  IF existing_rsvp # {}
             THEN FinishLater(t, "create_rsvp",
                              Raise(409, "You have already RSVP'd to this event"))
             ELSE Goto(t, "create_rsvp_insert", NoLoc)
    /\ UNCHANGED <<events, rsvps, nextOid>>

\* create_rsvp: the duplicate check, a read.
create_rsvp_duplicate(t) ==
    /\ pc[t] = "create_rsvp_duplicate"
    /\ LET existing_rsvp == find_one_duplicate(rsvps, arg[t].email, arg[t].event_id)
       IN  IF existing_rsvp # {}
             THEN FinishLater(t, "create_rsvp",
                              Raise(400, "You have already RSVP'd to this event"))
             ELSE Goto(t, "create_rsvp_insert", NoLoc)
    /\ UNCHANGED <<events, rsvps, nextOid>>

\* create_rsvp: the insert, a write that reads nothing.
create_rsvp_insert(t, now) ==
    /\ pc[t] = "create_rsvp_insert"
    /\ nextOid <= MaxOid
    /\ rsvps' = insert_one(rsvps, nextOid, RSVPCreate_model_dump(arg[t], now))
    /\ nextOid' = nextOid + 1
    /\ Goto(t, "create_rsvp_find", [inserted_id |-> nextOid])
    /\ UNCHANGED events

\* A create_rsvp that, instead of reading back, makes its duplicate check
\* again.
create_rsvp_find_again(t) ==
    /\ pc[t] = "create_rsvp_find"
    /\ Goto(t, "create_rsvp_duplicate", NoLoc)
    /\ UNCHANGED <<events, rsvps, nextOid>>

\* create_rsvp: the read-back.  created_rsvp['_id'] in the log line raises
\* TypeError when the read-back found nothing.
create_rsvp_find(t) ==
    /\ pc[t] = "create_rsvp_find"
    /\ LET created_rsvp == find_one_by_id(rsvps, loc[t].inserted_id)
       IN  IF created_rsvp = {}
             THEN FinishLater(t, "create_rsvp", RaiseOther("TypeError"))
             ELSE FinishLater(t, "create_rsvp", Return(created_rsvp))
    /\ UNCHANGED <<events, rsvps, nextOid>>

\* The query of get_all_rsvps: an anchored regex per filter that is given.
RSVPQuery(user_name, email) ==
    [f \in {g \in {"user_name", "email"} :
               Truthy(IF g = "user_name" THEN user_name ELSE email)} |->
        <<"^">> \o (IF f = "user_name" THEN user_name.s ELSE email.s) \o <<"$">>]

\* get_all_rsvps: one find.
get_all_rsvps(t, user_name, email) ==
    /\ pc[t] = "idle"
    /\ LET a == [user_name |-> user_name, email |-> email]
           query == RSVPQuery(user_name, email)
       IN  IF \E f \in DOMAIN query : ~regex_valid(query[f])
             THEN Finish(t, "get_all_rsvps", a, RaiseOther("OperationFailure"))
             ELSE Finish(t, "get_all_rsvps", a,
                         Return(to_list(find_regex(rsvps, query), 500)))
    /\ UNCHANGED <<events, rsvps, nextOid>>

\* get_rsvps_for_event up to the await of the event lookup.
get_rsvps_for_event(t, event_id, before) ==
    /\ pc[t] = "idle"
    /\ LET a == [id |-> event_id]
       IN  IF ~ObjectId_is_valid(event_id)
             THEN Finish(t, "get_rsvps_for_event", a, Raise(400, "Invalid event ID format"))
           ELSE IF find_one_by_id(events, ObjectId(event_id)) = {}
             THEN Finish(t, "get_rsvps_for_event", a, Raise(404, "Event not found"))
           ELSE Await(t, "get_rsvps_for_event_find", a, NoLoc, before)
    /\ UNCHANGED <<events, rsvps, nextOid>>

\* get_rsvps_for_event: find({"event_id": event_id}).to_list(500).
get_rsvps_for_event_find(t) ==
    /\ pc[t] = "get_rsvps_for_event_find"
    /\ FinishLater(t, "get_rsvps_for_event",
                   Return(to_list({r \in rsvps : MatchesEventId(r, arg[t].id)}, 500)))
    /\ UNCHANGED <<events, rsvps, nextOid>>

\* A delete_rsvp that deletes by _id from the events collection as well.
delete_rsvp_from_both(t, rsvp_id) ==
    /\ pc[t] = "idle"
    /\ LET a == [id |-> rsvp_id]
       IN  IF ~ObjectId_is_valid(rsvp_id)
             THEN /\ Finish(t, "delete_rsvp", a, Raise(400, "Invalid RSVP ID format"))
                  /\ UNCHANGED <<events, rsvps>>
           ELSE /\ rsvps' = delete_one_by_id(rsvps, ObjectId(rsvp_id))
                /\ events' = delete_one_by_id(events, ObjectId(rsvp_id))
                /\ Finish(t, "delete_rsvp", a, Return([rsvp_id |-> rsvp_id]))
    /\ UNCHANGED nextOid

delete_rsvp(t, rsvp_id) ==
    /\ pc[t] = "idle"
    /\ LET a == [id |-> rsvp_id]
       IN  IF ~ObjectId_is_valid(rsvp_id)
             THEN /\ Finish(t, "delete_rsvp", a, Raise(400, "Invalid RSVP ID format"))
                  /\ UNCHANGED rsvps
           ELSE IF find_one_by_id(rsvps, ObjectId(rsvp_id)) = {}
             THEN /\ Finish(t, "delete_rsvp", a, Raise(404, "RSVP not found"))
                  /\ UNCHANGED rsvps
           ELSE /\ rsvps' = delete_one_by_id(rsvps, ObjectId(rsvp_id))
                /\ Finish(t, "delete_rsvp", a, Return([rsvp_id |-> rsvp_id]))
    /\ UNCHANGED <<events, nextOid>>

\* ------------------------------------------------------------- the inputs

\* Strings.
Workshop == <<"W", "k">>
Party == <<"P">>
Tech == <<"T">>
Music == <<"M">>
Learn == <<"L">>
Fun == <<"F">>
Alice == <<"A">>
MailA == <<"a", "@", "x">>
\* The same address with its local part in upper case: EmailStr keeps the
\* case of the local part.
MailUpper == <<"A", "@", "x">>

\* Datetimes: naive on a whole millisecond, naive with microseconds, aware.
DateWhole == <<1, 0, 0>>
DateMicro == <<1, 1, 0>>
DateAware == <<2, 0, 1>>

\* datetime.now(timezone.utc): aware, with microseconds.
Now == {<<3, 1, 1>>}

\* Requests that pass EventCreate.
EventInputs ==
    {[title |-> Workshop, description |-> Learn, date |-> d, category |-> Tech] :
        d \in {DateWhole, DateMicro, DateAware}}

\* Requests that pass EventUpdate: any subset of the fields, a field given
\* as null included.
Patch(S, v) == [f \in S |-> v[f]]

PatchValues == [title |-> Party, description |-> Fun, date |-> DateAware, category |-> Music]

NullValues == [title |-> None, description |-> None, date |-> None, category |-> None]

EventUpdates ==
    {Patch(S, PatchValues) : S \in {{}, {"title"}, {"date"}, {"description", "category"}}}
        \cup {Patch({"title"}, NullValues)}

FewEventUpdates == {Patch({}, PatchValues), Patch({"title"}, PatchValues)}

\* A well-formed identifier the store never generates.
NoSuchOid == 0

\* Identifier strings a client sends: the ones the service has returned so
\* far, and a well-formed one that names nothing.
ReturnedIds == {ObjectId_str(n) : n \in 1..(nextOid - 1)} \cup {ObjectId_str(NoSuchOid)}

\* The same, and a string that is no identifier.
KnownIds == ReturnedIds \cup {Malformed}

\* The same, and the returned identifiers respelled in upper case.
AllIds == KnownIds \cup {IdStr(n, TRUE) : n \in 1..(nextOid - 1)}

\* Requests that pass RSVPCreate.
RSVPInputs(emails, ids) ==
    {[user_name |-> Alice, email |-> e, event_id |-> i] : e \in emails, i \in ids}

\* ------------------------------------------------------ the specification

Step(t, ids, newEvents, updates, emails, before) ==
    \/ \E event \in newEvents : create_event(t, event, before)
    \/ create_event_find(t)
    \/ \E id \in ids : get_event_by_id(t, id)
    \/ \E id \in ids, u \in updates : update_event(t, id, u, before)
    \/ update_event_find(t)
    \/ \E id \in ids : delete_event(t, id, before)
    \/ delete_event_cascade(t)
    \/ \E rsvp \in RSVPInputs(emails, ids) : create_rsvp(t, rsvp, before)
    \/ create_rsvp_duplicate(t)
    \/ \E now \in Now : create_rsvp_insert(t, now)
    \/ create_rsvp_find(t)
    \/ \E id \in ids : get_rsvps_for_event(t, id, before)
    \/ get_rsvps_for_event_find(t)
    \/ \E id \in ids : delete_rsvp(t, id)

WholeDateEvents == {e \in EventInputs : e.date = DateWhole}

\* Requests run concurrently: any task may take its next step.  The two list
\* operations write nothing and are stepped in ListSpec and CapSpec.
Next ==
    \E t \in Tasks : Step(t, ReturnedIds, WholeDateEvents, FewEventUpdates, {MailA}, NoPre)

Spec == Init /\ [][Next]_vars

\* Requests run one at a time: one client, each call awaited before the next.
SeqNext == Step("t1", AllIds, WholeDateEvents, FewEventUpdates, {MailA, MailUpper}, Store)

SeqSpec == Init /\ [][SeqNext]_vars

\* One client again, with every kind of event request and identifiers in the
\* spelling the service returned.
EventNext == Step("t1", KnownIds, EventInputs, EventUpdates, {MailA}, Store)

EventSpec == Init /\ [][EventNext]_vars

\* Events that differ in title and category: in letter case, by a title that
\* is part of another, and by a category that ends in a newline.
ListEvents ==
    {[title |-> Workshop, description |-> Learn, date |-> DateWhole, category |-> Tech],
     [title |-> Party, description |-> Learn, date |-> DateWhole, category |-> Music],
     [title |-> <<"k">>, description |-> Learn, date |-> DateWhole, category |-> <<"t">>],
     [title |-> <<"w">>, description |-> Learn, date |-> DateWhole, category |-> <<"T", "\n">>]}

\* The filters of get_all_events: not sent, empty, a word in one case or the
\* other, a character the regex language reads as an operator, and pairs.
EventFilters ==
    {[category |-> c, title |-> NotGiven] :
        c \in {NotGiven, Given(<<>>), Given(Tech), Given(<<"t">>), Given(Music),
               Given(<<".">>), Given(<<"(">>)}}
    \cup {[category |-> NotGiven, title |-> x] :
        x \in {Given(<<>>), Given(<<"k">>), Given(<<"W">>), Given(Workshop),
               Given(<<".">>), Given(<<"^", "k">>)}}
    \cup {[category |-> Given(Tech), title |-> Given(<<"k">>)],
          [category |-> Given(<<"t">>), title |-> Given(<<"w">>)],
          [category |-> Given(Music), title |-> Given(<<"k">>)]}

\* The filters of get_all_rsvps: not sent, a value in one case or the other,
\* a part of a value, and a character the regex language reads as an operator.
RSVPFilters ==
    {[user_name |-> NotGiven, email |-> e] :
        e \in {NotGiven, Given(MailA), Given(<<"A", "@", "x">>), Given(<<"a", "@">>),
               Given(<<".", "@", "x">>)}}
    \cup {[user_name |-> Given(<<"a">>), email |-> e] : e \in {NotGiven, Given(MailA)}}
    \cup {[user_name |-> u, email |-> Given(<<>>)] : u \in {NotGiven, Given(<<>>)}}

\* The two list operations, each one find.
ListStep(t, eventFilters, rsvpFilters) ==
    \/ \E q \in eventFilters : get_all_events(t, q.category, q.title)
    \/ \E q \in rsvpFilters : get_all_rsvps(t, q.user_name, q.email)

\* One client that creates, changes and lists events and RSVPs.
ListNext ==
    \/ Step("t1", ReturnedIds, ListEvents, {Patch({"title"}, PatchValues)}, {MailA}, Store)
    \/ ListStep("t1", EventFilters, RSVPFilters)

ListSpec == Init /\ [][ListNext]_vars

\* A store filled by calls made one at a time: n events with the identifiers
\* 1..n, the first of category Music and the others Tech, and m RSVPs of the
\* first event under m different emails.
Digit == <<"0", "1", "2", "3", "4", "5", "6", "7", "8", "9">>

NumberedMail(j) ==
    <<"u", Digit[(j \div 100) + 1], Digit[((j \div 10) % 10) + 1], Digit[(j % 10) + 1],
      "@", "x">>

FilledEvents(n) ==
    UNION {insert_one({}, i,
                      [title |-> Workshop, description |-> Learn, date |-> DateWhole,
                       category |-> IF i = 1 THEN Music ELSE Tech]) : i \in 1..n}

FilledRsvps(n, m) ==
    UNION {insert_one({}, n + j,
                      RSVPCreate_model_dump(
                          [user_name |-> Alice, email |-> NumberedMail(j),
                           event_id |-> ObjectId_str(1)],
                          CHOOSE now \in Now : TRUE)) : j \in 1..m}

CapInit ==
    /\ \E n \in (100 - Slack)..(100 + Slack), m \in (500 - Slack)..(500 + Slack) :
           /\ events = FilledEvents(n)
           /\ rsvps = FilledRsvps(n, m)
           /\ nextOid = n + m + 1
    /\ pc = [t \in Tasks |-> "idle"]
    /\ arg = [t \in Tasks |-> NoArg]
    /\ loc = [t \in Tasks |-> NoLoc]
    /\ pre = [t \in Tasks |-> NoPre]
    /\ resp = NoResp

\* One client that lists what a full store holds.
CapNext ==
    \/ ListStep("t1",
                {[category |-> c, title |-> NotGiven] :
                    c \in {NotGiven, Given(Tech), Given(Music)}},
                {[user_name |-> u, email |-> NotGiven] :
                    u \in {NotGiven, Given(Alice)}})
    \/ \E id \in {ObjectId_str(1), ObjectId_str(2)} :
           get_rsvps_for_event("t1", id, Store)
    \/ get_rsvps_for_event_find("t1")

CapSpec == CapInit /\ [][CapNext]_vars

\* ------------------------------------------------- a store that can fail
\* The driver raises a PyMongoError when the store does not carry out an
\* operation.  No service method catches it: every `except Exception` logs
\* and re-raises, so the call ends there with that exception.

StoreError == RaiseOther("PyMongoError")

\* The operation each await after the first belongs to.
OperationAt ==
    [create_event_find |-> "create_event",
     update_event_find |-> "update_event",
     delete_event_cascade |-> "delete_event",
     create_rsvp_duplicate |-> "create_rsvp",
     create_rsvp_insert |-> "create_rsvp",
     create_rsvp_find |-> "create_rsvp",
     get_rsvps_for_event_find |-> "get_rsvps_for_event"]

\* A failure that is swallowed: the call reports success.
store_fails_swallowed(t) ==
    /\ pc[t] \in DOMAIN OperationAt
    /\ FinishLater(t, OperationAt[pc[t]], Return({}))
    /\ UNCHANGED <<events, rsvps, nextOid>>

\* The store operation a suspended call awaits fails: nothing is written and
\* the exception leaves the method.
store_fails(t) ==
    /\ pc[t] \in DOMAIN OperationAt
    /\ FinishLater(t, OperationAt[pc[t]], StoreError)
    /\ UNCHANGED <<events, rsvps, nextOid>>

\* The first store operation of a call fails, after its arguments passed
\* the checks made before it.
first_store_operation_fails(t, name, a) ==
    /\ pc[t] = "idle"
    /\ Finish(t, name, a, StoreError)
    /\ UNCHANGED <<events, rsvps, nextOid>>

\* The calls whose arguments reach the first store operation.
CallsReachingStore(ids, newEvents, updates, emails) ==
    {[op |-> "create_event", arg |-> e] : e \in newEvents}
        \cup {[op |-> o, arg |-> [id |-> i]] :
                o \in {"get_event_by_id", "delete_event", "get_rsvps_for_event", "delete_rsvp"},
                i \in {i \in ids : ObjectId_is_valid(i)}}
        \cup {[op |-> "update_event", arg |-> [id |-> i, patch |-> u]] :
                i \in {i \in ids : ObjectId_is_valid(i)},
                u \in {u \in updates : ~NoFieldsToUpdate(EventUpdate_model_dump(u))}}
        \cup {[op |-> "create_rsvp", arg |-> r] :
                r \in {r \in RSVPInputs(emails, ids) : ObjectId_is_valid(r.event_id)}}

\* One client whose store operations each succeed or fail.  A call that
\* needs a new identifier starts only while the bound leaves one, so that
\* MaxOid never stops a call half-way.
FailNext ==
    \/ /\ Step("t1", ReturnedIds, WholeDateEvents, FewEventUpdates, {MailA}, Store)
       /\ pc'["t1"] = "create_rsvp_duplicate" => nextOid <= MaxOid
    \/ store_fails("t1")
    \/ \E c \in CallsReachingStore(ReturnedIds, WholeDateEvents, FewEventUpdates, {MailA}) :
           first_store_operation_fails("t1", c.op, c.arg)

\* Every store operation eventually responds, and the event loop resumes the
\* coroutine that awaits it.
FailSpec == Init /\ [][FailNext]_vars /\ WF_vars(FailNext)

\* ------------------------------------------------------------ the claims

Idle == \A t \in Tasks : pc[t] = "idle"

\* The ObjectIds of the documents of a collection.
Ids(coll) == {d._id : d \in coll}

\* The stored RSVPs of one (email, event_id) pair.
RsvpsOfPair(coll, email, event_id) ==
    {r \in coll : r.email = email /\ r.event_id = event_id}

\* The response is that of a call of `name`.
Responded(name) == resp.op = name

Succeeded(name) == resp.op = name /\ resp.ret.kind = "return"

Failed(name, code) ==
    resp.op = name /\ resp.ret.kind = "HTTPException" /\ resp.ret.code = code

\* The document of the identifier string `id` in `coll`, or None.
Named(coll, id) ==
    IF ObjectId_is_valid(id) THEN find_one_by_id(coll, ObjectId(id)) ELSE {}

\* C1: in every reachable state the rsvps collection holds at most one RSVP
\* for each (email, event_id) pair, whatever the interleaving of the calls.
C1_UniquePair ==
    \A r1, r2 \in rsvps :
        (r1.email = r2.email /\ r1.event_id = r2.event_id) => r1 = r2

\* C2: a create_rsvp that has passed its duplicate check inserts its RSVP
\* whatever the collection holds by then (the insert reads nothing), so two
\* concurrent calls of one (email, event_id) that both passed the check both
\* insert and both return success.
C2_InsertAfterCheck ==
    [][\A t \in Tasks :
         (pc[t] = "create_rsvp_insert" /\ pc'[t] # pc[t]) =>
             /\ pc'[t] = "create_rsvp_find"
             /\ Cardinality(rsvps') = Cardinality(rsvps) + 1
             /\ \E r \in rsvps' \ rsvps :
                    /\ r._id = loc'[t].inserted_id
                    /\ r.email = arg[t].email
                    /\ r.event_id = arg[t].event_id]_vars

\* Two RSVPs of one pair are stored, every call has returned, and the last
\* response returns one of the two (the other was found by its own call's
\* read-back, having been stored since its insert).
C2_TwoStoredBothSucceeded ==
    /\ Idle
    /\ Succeeded("create_rsvp")
    /\ \E r1 \in resp.ret.body :
           /\ r1 \in rsvps
           /\ Cardinality(RsvpsOfPair(rsvps, r1.email, r1.event_id)) = 2

\* C3: delete_event(id), run alone on an existing event with N stored RSVPs
\* whose event_id equals id, returns rsvps_deleted = N, and afterwards no
\* stored RSVP has event_id equal to id.
C3_CascadeCount ==
    (Responded("delete_event") /\ Named(resp.pre.events, resp.arg.id) # {}) =>
        /\ resp.ret.kind = "return"
        /\ resp.ret.body.rsvps_deleted =
               Cardinality({r \in resp.pre.rsvps : r.event_id = resp.arg.id})
        /\ \A r \in rsvps : r.event_id # resp.arg.id

C3_CascadedTwo ==
    /\ Succeeded("delete_event")
    /\ resp.ret.body.rsvps_deleted = 2
    /\ Cardinality({r \in resp.pre.rsvps : r.event_id = resp.arg.id}) = 2

\* C4: delete_event removes the event in one store operation that leaves the
\* rsvps as they are and only then awaits the cascade, and create_rsvp's
\* insert writes its RSVP without reading the events again: an RSVP of a
\* deleted event can be inserted after the cascade.
C4_TwoSeparateOperations ==
    [][/\ ~(Ids(events) \subseteq Ids(events')) =>
              /\ rsvps' = rsvps
              /\ \E t \in Tasks :
                     pc[t] = "idle" /\ pc'[t] = "delete_event_cascade"
       /\ \A t \in Tasks :
              (pc[t] = "create_rsvp_insert" /\ pc'[t] = "create_rsvp_find") =>
                  /\ events' = events
                  /\ \E r \in rsvps' \ rsvps : r.event_id = arg[t].event_id]_vars

\* Every call has returned, delete_event among them, and a stored RSVP names
\* an event that is not stored.
C4_OrphanAfterDelete ==
    /\ Idle
    /\ \E r \in rsvps : Named(events, r.event_id) = {}

\* C5: a create_rsvp run alone while an RSVP of the same email and event_id
\* is stored for an existing event fails with Conflict and the store is as
\* before.
C5_DuplicateConflict ==
    (/\ Responded("create_rsvp")
     /\ Named(resp.pre.events, resp.arg.event_id) # {}
     /\ RsvpsOfPair(resp.pre.rsvps, resp.arg.email, resp.arg.event_id) # {}) =>
        /\ resp.ret = Raise(400, "You have already RSVP'd to this event")
        /\ Store = resp.pre

C5_ConflictRaised ==
    /\ Failed("create_rsvp", 400)
    /\ RsvpsOfPair(resp.pre.rsvps, resp.arg.email, resp.arg.event_id) # {}
    /\ rsvps # {}

\* C6: create_rsvp with a well-formed event_id that names no stored event
\* fails with NotFound, with a malformed event_id it fails with
\* InvalidArgument, and either way nothing is inserted.
C6_ReferentialCheck ==
    Responded("create_rsvp") =>
        /\ ~resp.arg.event_id.wf =>
               /\ resp.ret = Raise(400, "Invalid event ID format")
               /\ Store = resp.pre
        /\ (/\ resp.arg.event_id.wf
            /\ Named(resp.pre.events, resp.arg.event_id) = {}) =>
               /\ resp.ret = Raise(404, "Event not found")
               /\ Store = resp.pre

\* A well-formed identifier that named an event once, and no longer does.
C6_NotFoundRaised ==
    /\ Failed("create_rsvp", 404)
    /\ ObjectId(resp.arg.event_id) # NoSuchOid
    /\ events # {}

\* C7: get_event_by_id called with the id create_event(x) returned, nothing
\* in between, returns a record with that id whose title, description, date
\* and category equal those of x.
C7_RoundTrip ==
    [][(/\ Succeeded("create_event")
        /\ resp'.op = "get_event_by_id"
        /\ \E c \in resp.ret.body : resp'.arg.id = ObjectId_str(c._id)) =>
           /\ resp'.ret.kind = "return"
           /\ \A d \in resp'.ret.body :
                  /\ \E c \in resp.ret.body : d._id = c._id
                  /\ \A f \in EventFields : d[f] = resp.arg[f]
           /\ resp'.ret.body # {}]_vars

\* C8: a successful update_event(id, patch) sets, on the stored event,
\* exactly the fields of the patch to the patch's values, leaves every other
\* field as it was, and returns the record so changed.
C8_MergePatch ==
    Succeeded("update_event") =>
        \E before \in Named(resp.pre.events, resp.arg.id) :
        \E after \in Named(events, resp.arg.id) :
            /\ \A f \in EventFields :
                   after[f] = IF f \in DOMAIN resp.arg.patch
                                THEN resp.arg.patch[f] ELSE before[f]
            /\ after._id = before._id
            /\ resp.ret.body = {after}

\* C9: update_event with a patch that sets no field fails with
\* InvalidArgument for every id, stored or not, and writes nothing.
C9_EmptyPatchRejected ==
    (Responded("update_event") /\ DOMAIN resp.arg.patch = {}) =>
        /\ resp.ret.kind = "HTTPException"
        /\ resp.ret.code = 400
        /\ Store = resp.pre

C9_EmptyPatchOnStoredEvent ==
    /\ Failed("update_event", 400)
    /\ DOMAIN resp.arg.patch = {}
    /\ Named(events, resp.arg.id) # {}

\* C10: in every reachable state every stored event has title, description,
\* date and category set to a value that is not null.
C10_AllFieldsSet ==
    \A e \in events : \A f \in EventFields : e[f] # None

\* The documents of a list.
Elems(list) == {list[k] : k \in DOMAIN list}

\* Two strings are equal when letter case is ignored.
EqualIgnoringCase(a, b) ==
    /\ Len(a) = Len(b)
    /\ \A k \in 1..Len(a) : Lower(a[k]) = Lower(b[k])

\* s contains part as a substring when letter case is ignored.
ContainsIgnoringCase(s, part) ==
    \E i \in 0..(Len(s) - Len(part)) :
        \A k \in 1..Len(part) : Lower(s[i + k]) = Lower(part[k])

\* C11: get_all_events with a category argument c (and no title) returns
\* exactly the stored events whose category equals c when letter case is
\* ignored, for every c.
C11_CategoryExact ==
    (/\ Responded("get_all_events")
     /\ resp.arg.category.given
     /\ ~resp.arg.title.given) =>
        /\ resp.ret.kind = "return"
        /\ Elems(resp.ret.body) =
               {e \in resp.pre.events :
                    EqualIgnoringCase(e.category, resp.arg.category.s)}

\* C12: get_all_events with a title argument t (and no category) returns
\* exactly the stored events whose title contains t as a substring when
\* letter case is ignored, for every t.
C12_TitleSubstring ==
    (/\ Responded("get_all_events")
     /\ resp.arg.title.given
     /\ ~resp.arg.category.given) =>
        /\ resp.ret.kind = "return"
        /\ Elems(resp.ret.body) =
               {e \in resp.pre.events :
                    ContainsIgnoringCase(e.title, resp.arg.title.s)}

EventIdOps ==
    {"get_event_by_id", "update_event", "delete_event", "get_rsvps_for_event",
     "create_rsvp"}

EventIdOf(op, a) == IF op = "create_rsvp" THEN a.event_id ELSE a.id

\* C14: an identifier enters the events collection only as a freshly
\* generated one, so the identifier of a deleted event never names an event
\* again; once delete_event(id) has returned success id names no event; and
\* a call of get_event_by_id, update_event (non-empty patch), delete_event,
\* get_rsvps_for_event or create_rsvp that starts while its well-formed
\* identifier names no event fails with NotFound in that step.
C14_DeletedStaysDeleted ==
    [][/\ \A e \in events : e._id < nextOid
       /\ \A e \in events' :
              \/ e._id \in Ids(events)
              \/ e._id = nextOid /\ nextOid' > nextOid
       /\ (resp'.op = "delete_event" /\ resp'.ret.kind = "return") =>
              \A e \in events' : e._id # resp'.arg.id.oid
       /\ \A t \in Tasks :
              (/\ pc[t] = "idle"
               /\ resp'.task = t
               /\ resp'.op \in EventIdOps
               /\ EventIdOf(resp'.op, resp'.arg).wf
               /\ \A e \in events : e._id # EventIdOf(resp'.op, resp'.arg).oid
               /\ resp'.op = "update_event" => DOMAIN resp'.arg.patch # {}) =>
                  /\ resp'.ret.kind = "HTTPException"
                  /\ resp'.ret.code = 404
       /\ \A t \in Tasks :
              (/\ pc[t] = "idle"
               /\ pc'[t] \in {"update_event_find", "delete_event_cascade",
                              "create_rsvp_duplicate", "get_rsvps_for_event_find"}) =>
                  \E e \in events :
                      e._id = (IF pc'[t] = "create_rsvp_duplicate"
                                 THEN arg'[t].event_id ELSE arg'[t].id).oid]_vars

\* The event of a stored RSVP was deleted, every call has returned, and a
\* later get_rsvps_for_event of its identifier failed with NotFound.
C14_NotFoundAfterDelete ==
    /\ Idle
    /\ Failed("get_rsvps_for_event", 404)
    /\ \E r \in rsvps : r.event_id = resp.arg.id

\* C15: a create_rsvp that succeeds returns a record with the user_name,
\* email and event_id given, an id no stored RSVP had and a created_at; and
\* as long as an RSVP is stored, get_rsvps_for_event of its event_id returns
\* a list that contains it.
C15_ListedWhileStored ==
    /\ Succeeded("create_rsvp") =>
           /\ resp.ret.body # {}
           /\ \A r \in resp.ret.body :
                  /\ r.user_name = resp.arg.user_name
                  /\ r.email = resp.arg.email
                  /\ r.event_id = resp.arg.event_id
                  /\ r._id \notin Ids(resp.pre.rsvps)
                  /\ r.created_at # None
    /\ Responded("get_rsvps_for_event") =>
           \A r \in resp.pre.rsvps :
               r.event_id = resp.arg.id =>
                   /\ resp.ret.kind = "return"
                   /\ r \in Elems(resp.ret.body)

\* C16: get_rsvps_for_event(event_id) fails with InvalidArgument when
\* event_id is malformed, with NotFound when it names no stored event
\* (whatever RSVPs carry it), and otherwise returns exactly the stored RSVPs
\* whose event_id equals the argument, each once.
C16_ExistenceGated ==
    Responded("get_rsvps_for_event") =>
        LET matching == {r \in resp.pre.rsvps : r.event_id = resp.arg.id}
        IN  IF ~resp.arg.id.wf
              THEN resp.ret.kind = "HTTPException" /\ resp.ret.code = 400
            ELSE IF \A e \in resp.pre.events : e._id # resp.arg.id.oid
              THEN resp.ret.kind = "HTTPException" /\ resp.ret.code = 404
            ELSE /\ resp.ret.kind = "return"
                 /\ Elems(resp.ret.body) = matching
                 /\ Len(resp.ret.body) = Cardinality(matching)

\* NotFound for an identifier that stored RSVPs carry.
C16_NotFoundWithRsvpsStored ==
    /\ Failed("get_rsvps_for_event", 404)
    /\ Cardinality({r \in resp.pre.rsvps : r.event_id = resp.arg.id}) >= 1

\* C17: delete_rsvp(id) fails with InvalidArgument when id is malformed, with
\* NotFound when it names no stored RSVP, and otherwise removes the RSVP of
\* that id and nothing else, and returns a confirmation with the id given.
C17_DeleteRsvp ==
    Responded("delete_rsvp") =>
        LET target == {r \in resp.pre.rsvps : r._id = resp.arg.id.oid}
        IN  IF ~resp.arg.id.wf
              THEN resp.ret.kind = "HTTPException" /\ resp.ret.code = 400
            ELSE IF target = {}
              THEN resp.ret.kind = "HTTPException" /\ resp.ret.code = 404
            ELSE /\ resp.ret.kind = "return"
                 /\ resp.ret.body.rsvp_id = resp.arg.id
                 /\ Cardinality(target) = 1
                 /\ rsvps = resp.pre.rsvps \ target
                 /\ events = resp.pre.events

\* One RSVP was removed and another is still stored.
C17_RemovedOneOfTwo ==
    /\ Succeeded("delete_rsvp")
    /\ rsvps # {}
    /\ Cardinality(resp.pre.rsvps) = 2

\* C18: update_event with a well-formed id that names no stored event and a
\* patch that sets a field fails with NotFound and leaves the events
\* collection as it was: nothing is inserted.
C18_UpdateNeverInserts ==
    (/\ Responded("update_event")
     /\ resp.arg.id.wf
     /\ DOMAIN resp.arg.patch # {}
     /\ \A e \in resp.pre.events : e._id # resp.arg.id.oid) =>
        /\ resp.ret.kind = "HTTPException"
        /\ resp.ret.code = 404
        /\ events = resp.pre.events

\* NotFound for a patch on the identifier of an event that was deleted, while
\* another event is stored.
C18_NotFoundOnDeletedEvent ==
    /\ Failed("update_event", 404)
    /\ resp.arg.id.oid # NoSuchOid
    /\ events # {}

\* The kind of a typed error, by what it reports, and the status code the
\* specification gives each kind.
ErrorKind(detail) ==
    IF detail \in {"Invalid event ID format", "Invalid RSVP ID format",
                   "No fields to update"} THEN "InvalidArgument"
    ELSE IF detail \in {"Event not found", "RSVP not found"} THEN "NotFound"
    ELSE IF detail = "You have already RSVP'd to this event" THEN "Conflict"
    ELSE IF detail = "Failed to create event" THEN "InternalError"
    ELSE "unknown"

StatusOfKind ==
    [InvalidArgument |-> 400, NotFound |-> 404, Conflict |-> 400,
     InternalError |-> 500, unknown |-> 0]

Capped(list, matching, cap) ==
    /\ Len(list) <= cap
    /\ Cardinality(matching) <= cap =>
           /\ Elems(list) = matching
           /\ Len(list) = Cardinality(matching)

\* C20: get_all_events returns at most 100 records, get_all_rsvps and
\* get_rsvps_for_event at most 500, and each returns every matching record
\* exactly once when at most that many match.
C20_Caps ==
    /\ Succeeded("get_all_events") =>
           Capped(resp.ret.body,
                  find_regex(resp.pre.events,
                             EventQuery(resp.arg.category, resp.arg.title)),
                  100)
    /\ Succeeded("get_all_rsvps") =>
           Capped(resp.ret.body,
                  find_regex(resp.pre.rsvps,
                             RSVPQuery(resp.arg.user_name, resp.arg.email)),
                  500)
    /\ Succeeded("get_rsvps_for_event") =>
           Capped(resp.ret.body,
                  {r \in resp.pre.rsvps : r.event_id = resp.arg.id}, 500)

\* More than 100 events match and 100 are returned.
C20_EventsCapped ==
    /\ Succeeded("get_all_events")
    /\ Len(resp.ret.body) = 100
    /\ Cardinality(find_regex(resp.pre.events,
                              EventQuery(resp.arg.category, resp.arg.title))) > 100

\* C21: get_all_events given a category and a title returns exactly the
\* events that each of the two filters alone selects, each once; given
\* neither, it returns every stored event (the cap is not reached here).
C21_BothOrNeither ==
    Succeeded("get_all_events") =>
        /\ (resp.arg.category.given /\ resp.arg.title.given) =>
               Capped(resp.ret.body,
                      find_regex(resp.pre.events,
                                 EventQuery(resp.arg.category, NotGiven))
                          \cap find_regex(resp.pre.events,
                                          EventQuery(NotGiven, resp.arg.title)),
                      100)
        /\ (~resp.arg.category.given /\ ~resp.arg.title.given) =>
               Capped(resp.ret.body, resp.pre.events, 100)

\* Both filters select a stored event, and the list returned is smaller than
\* what the category filter alone selects.
C21_BothFiltersBite ==
    /\ Succeeded("get_all_events")
    /\ resp.arg.category.given /\ resp.arg.title.given
    /\ find_regex(resp.pre.events, EventQuery(NotGiven, resp.arg.title)) # {}
    /\ Len(resp.ret.body) <
           Cardinality(find_regex(resp.pre.events,
                                  EventQuery(resp.arg.category, NotGiven)))

\* C22: get_all_rsvps(user_name=u, email=e) returns exactly the stored RSVPs
\* whose user_name equals u ignoring letter case when u is given and whose
\* email equals e ignoring letter case when e is given; a value that only
\* contains the argument is not returned.
C22_RsvpFiltersExact ==
    Responded("get_all_rsvps") =>
        /\ resp.ret.kind = "return"
        /\ Elems(resp.ret.body) =
               {r \in resp.pre.rsvps :
                    /\ Truthy(resp.arg.user_name) =>
                           EqualIgnoringCase(r.user_name, resp.arg.user_name.s)
                    /\ Truthy(resp.arg.email) =>
                           EqualIgnoringCase(r.email, resp.arg.email.s)}

\* C23: whenever create_rsvp inserts its RSVP, the event its event_id names
\* is stored, whatever calls of delete_event are interleaved.
C23_EventPresentAtInsert ==
    [][\A t \in Tasks :
         (pc[t] = "create_rsvp_insert" /\ pc'[t] = "create_rsvp_find") =>
             \E e \in events : e._id = ObjectId(arg[t].event_id)]_vars

C25_AnySpelling ==
    /\ Succeeded("delete_event") =>
           \A r \in rsvps : ObjectId(r.event_id) # ObjectId(resp.arg.id)
    /\ Succeeded("get_rsvps_for_event") =>
           \A r \in resp.pre.rsvps :
               ObjectId(r.event_id) = ObjectId(resp.arg.id) =>
                   r \in Elems(resp.ret.body)

C27_UpdateReturnsRecord ==
    Succeeded("update_event") =>
        /\ resp.ret.body # {}
        /\ \A e \in resp.ret.body : e._id = ObjectId(resp.arg.id)

\* C28: every create_rsvp ends with the stored RSVP returned or with
\* InvalidArgument, NotFound or Conflict, whatever runs between its insert
\* and its read-back.
C28_FourOutcomes ==
    Responded("create_rsvp") =>
        \/ resp.ret.kind = "return" /\ resp.ret.body # {}
        \/ /\ resp.ret.kind = "HTTPException"
           /\ ErrorKind(resp.ret.detail) \in {"InvalidArgument", "NotFound", "Conflict"}

\* C29: create_event ends with InternalError exactly when its read-back does
\* not find the record of the inserted id, and otherwise returns the record
\* stored under that id; the insert stores that record, and only a step of
\* another call that removes an event can make the read-back miss it.
C29_InternalErrorIffReadBackMisses ==
    [][\A t \in Tasks :
         /\ (pc[t] = "create_event_find" /\ pc'[t] # pc[t]) =>
                /\ resp'.task = t /\ resp'.op = "create_event"
                /\ IF \E e \in events : e._id = loc[t].inserted_id
                     THEN /\ resp'.ret.kind = "return"
                          /\ resp'.ret.body =
                                 {e \in events : e._id = loc[t].inserted_id}
                     ELSE resp'.ret = Raise(500, "Failed to create event")
         /\ (pc[t] = "idle" /\ pc'[t] = "create_event_find") =>
                \E e \in events' : e._id = loc'[t].inserted_id
         /\ (/\ pc[t] = "create_event_find" /\ pc'[t] = pc[t]
             /\ \E e \in events : e._id = loc[t].inserted_id
             /\ \A e \in events' : e._id # loc[t].inserted_id) =>
                \E u \in Tasks \ {t} :
                    pc[u] = "idle" /\ pc'[u] = "delete_event_cascade"]_vars

\* create_event has failed with InternalError: a concurrent delete_event
\* removed its record, the only event, before the read-back.
C29_ReadBackMissed ==
    /\ Idle
    /\ Failed("create_event", 500)
    /\ events = {}

\* C30: with calls made one at a time, a call that ends in InvalidArgument,
\* NotFound or Conflict leaves events and rsvps as it found them; so a
\* delete_event of an id that names no stored event deletes no RSVP.
C30_FailureLeavesStore ==
    (/\ resp.ret.kind = "HTTPException"
     /\ ErrorKind(resp.ret.detail) \in {"InvalidArgument", "NotFound", "Conflict"}) =>
        Store = resp.pre

\* delete_event failed with NotFound while RSVPs with its event_id are stored.
C30_NotFoundKeepsRsvps ==
    /\ Failed("delete_event", 404)
    /\ \E r \in rsvps : r.event_id = resp.arg.id

\* C31: the step of delete_event that follows the removal of the event ends
\* the call at once, as a delete_event response with the event still removed
\* and not put back; it either succeeds, having removed the RSVPs of the
\* event, or it ends with the store's own error and leaves every RSVP stored.
\* It is never tried again.
C31_CascadeFailurePropagates ==
    [][\A t \in Tasks :
        (pc[t] = "delete_event_cascade" /\ pc'[t] # pc[t]) =>
            /\ pc'[t] = "idle"
            /\ resp'.task = t /\ resp'.op = "delete_event" /\ resp'.arg = arg[t]
            /\ events' = events
            /\ Named(events', arg[t].id) = {}
            /\ \/ /\ resp'.ret.kind = "return"
                  /\ rsvps' = {r \in rsvps : r.event_id # arg[t].id}
               \/ /\ resp'.ret = RaiseOther("PyMongoError")
                  /\ rsvps' = rsvps]_vars

\* delete_event ended with the store's error after it had removed the event:
\* the event is gone and an RSVP that names it is still stored.
C31_EventGoneRsvpsKept ==
    /\ Responded("delete_event")
    /\ resp.ret.kind = "PyMongoError"
    /\ Named(resp.pre.events, resp.arg.id) # {}
    /\ Named(events, resp.arg.id) = {}
    /\ \E r \in rsvps : r.event_id = resp.arg.id

\* C32: with calls made one at a time, a successful delete_event(id) leaves
\* exactly the events it found minus the one with that id, which was stored,
\* and exactly the RSVPs it found minus those whose event_id equals id.
C32_DeleteEventFrame ==
    Succeeded("delete_event") =>
        /\ Named(resp.pre.events, resp.arg.id) # {}
        /\ events = resp.pre.events \ Named(resp.pre.events, resp.arg.id)
        /\ Cardinality(events) = Cardinality(resp.pre.events) - 1
        /\ rsvps \subseteq resp.pre.rsvps
        /\ \A r \in resp.pre.rsvps : r.event_id # resp.arg.id => r \in rsvps
        /\ \A r \in resp.pre.rsvps \ rsvps : r.event_id = resp.arg.id

\* delete_event succeeded beside another event and an RSVP of that other
\* event: both are still stored.
C32_OtherEventAndRsvpKept ==
    /\ Succeeded("delete_event")
    /\ \E e \in events : \E r \in rsvps : ObjectId(r.event_id) = e._id

\* C33: no step of update_event changes the rsvps collection, the set of
\* event ids or the number of events, or any event other than the one its
\* id argument names; and no step of any operation changes the id of a
\* stored event: the ids stored after a step are ids stored before it, or
\* the identifier the driver generates next.
C33_UpdateEventFrame ==
    [][/\ \A t \in Tasks :
            (\/ pc[t] = "update_event_find" /\ pc'[t] = "idle"
             \/ pc[t] = "idle" /\ pc'[t] = "update_event_find"
             \/ pc[t] = "idle" /\ resp'.task = t /\ resp'.op = "update_event") =>
                LET id == IF pc[t] = "idle"
                            THEN IF pc'[t] = "idle" THEN resp'.arg.id ELSE arg'[t].id
                            ELSE arg[t].id
                IN  /\ rsvps' = rsvps
                    /\ Ids(events') = Ids(events)
                    /\ Cardinality(events') = Cardinality(events)
                    /\ \A e \in events : Named({e}, id) = {} => e \in events'
       /\ \A e \in events' : e._id \in Ids(events) \/ e._id = nextOid]_vars

\* update_event succeeded and changed the event it names, beside another
\* event and an RSVP.
C33_UpdatedBesideOthers ==
    /\ Succeeded("update_event")
    /\ Cardinality(events) > 1
    /\ rsvps # {}
    /\ \E e \in events :
        /\ Named({e}, resp.arg.id) # {}
        /\ \E f \in DOMAIN resp.arg.patch : e[f] = resp.arg.patch[f]

\* The awaits of the RSVPService methods, and their names.
RSVPAwaits ==
    {"create_rsvp_duplicate", "create_rsvp_insert", "create_rsvp_find",
     "get_rsvps_for_event_find"}

RSVPOperations ==
    {"create_rsvp", "get_all_rsvps", "get_rsvps_for_event", "delete_rsvp"}

\* C34: every step leaves each stored RSVP as it is, field for field, or
\* removes it, and it removes one only as delete_rsvp of its id or as the
\* cascade of a delete_event of its event_id; an RSVP that appears is the
\* one create_rsvp inserts under the next generated id; and no step of an
\* RSVPService method changes the events collection.
C34_RsvpsImmutable ==
    [][/\ \A r \in rsvps :
            \/ r \in rsvps'
            \/ /\ r._id \notin Ids(rsvps')
               /\ \E t \in Tasks :
                    \/ /\ pc[t] = "idle" /\ resp'.task = t /\ resp'.op = "delete_rsvp"
                       /\ Named({r}, resp'.arg.id) # {}
                    \/ /\ pc[t] = "delete_event_cascade" /\ pc'[t] = "idle"
                       /\ r.event_id = arg[t].id
       /\ \A r \in rsvps' \ rsvps :
            /\ r._id = nextOid
            /\ \E t \in Tasks : pc[t] = "create_rsvp_insert" /\ pc'[t] = "create_rsvp_find"
       /\ \A t \in Tasks :
            (\/ pc[t] \in RSVPAwaits /\ pc'[t] # pc[t]
             \/ pc[t] = "idle" /\ pc'[t] \in RSVPAwaits
             \/ pc[t] = "idle" /\ resp'.task = t /\ resp'.op \in RSVPOperations) =>
                events' = events]_vars

\* delete_rsvp removed one RSVP: another RSVP and the events are as before.
C34_OtherRsvpAndEventsKept ==
    /\ Succeeded("delete_rsvp")
    /\ rsvps # {}
    /\ rsvps \subseteq resp.pre.rsvps
    /\ events # {}
    /\ events = resp.pre.events

\* C35: the insert step of create_event adds exactly one event, whose id no
\* stored event has and whose fields are the input's as the store encodes
\* them, and leaves every stored event and every RSVP as it is, whatever is
\* stored already; the read-back that follows writes nothing.
C35_CreateEventFrame ==
    [][\A t \in Tasks :
        /\ (pc[t] = "idle" /\ pc'[t] = "create_event_find") =>
            /\ rsvps' = rsvps
            /\ events \subseteq events'
            /\ Cardinality(events') = Cardinality(events) + 1
            /\ \A e \in events' \ events :
                /\ e._id \notin Ids(events)
                /\ \A f \in EventFields : e[f] = BsonEncode(arg'[t])[f]
        /\ (pc[t] = "create_event_find" /\ pc'[t] = "idle") =>
            events' = events /\ rsvps' = rsvps]_vars

\* create_event has succeeded a second time with the same input: two events
\* that differ in nothing but their ids are stored.
C35_TwinEvents ==
    /\ Succeeded("create_event")
    /\ \E e1 \in events : \E e2 \in events :
        /\ e1._id # e2._id
        /\ \A f \in EventFields : e1[f] = e2[f] /\ e1[f] = BsonEncode(resp.arg)[f]

C37_SameEmailNotion ==
    (/\ Responded("create_rsvp")
     /\ Named(resp.pre.events, resp.arg.event_id) # {}
     /\ \E r \in find_regex(resp.pre.rsvps, RSVPQuery(NotGiven, Given(resp.arg.email))) :
            r.event_id = resp.arg.event_id) =>
        Failed("create_rsvp", 400)

\* An optional filter that was not sent, or was sent as the empty string.
EmptyOrAbsent(o) == o = NotGiven \/ o = Given(<<>>)

\* C38: a get_all_events whose filters are each absent or the empty string
\* returns what a call without arguments returns, the stored events in
\* natural order up to the cap; and so does get_all_rsvps for user_name and
\* email.
C38_EmptyFilterIsNoFilter ==
    /\ (/\ Responded("get_all_events")
        /\ EmptyOrAbsent(resp.arg.category) /\ EmptyOrAbsent(resp.arg.title)) =>
            /\ Succeeded("get_all_events")
            /\ resp.ret.body = to_list(resp.pre.events, 100)
    /\ (/\ Responded("get_all_rsvps")
        /\ EmptyOrAbsent(resp.arg.user_name) /\ EmptyOrAbsent(resp.arg.email)) =>
            /\ Succeeded("get_all_rsvps")
            /\ resp.ret.body = to_list(resp.pre.rsvps, 500)

\* get_all_rsvps was called with email="" and returned a stored RSVP.
C38_EmptyEmailListsAll ==
    /\ Succeeded("get_all_rsvps")
    /\ resp.arg.email = Given(<<>>)
    /\ resp.ret.body # <<>>

\* The store operations a call has made when it is suspended at an await.
StoreOperationsDone ==
    [idle |-> 0,
     create_event_find |-> 1,
     update_event_find |-> 1,
     delete_event_cascade |-> 1,
     create_rsvp_duplicate |-> 1,
     create_rsvp_insert |-> 2,
     create_rsvp_find |-> 3,
     get_rsvps_for_event_find |-> 1]

\* The most store operations a call of each method may make.
MostStoreOperations ==
    [create_event |-> 2, get_event_by_id |-> 1, update_event |-> 2,
     delete_event |-> 2, create_rsvp |-> 4, get_rsvps_for_event |-> 2,
     delete_rsvp |-> 1]

\* C39: when every store operation responds, with a result or an error,
\* a call in progress leads to a state with no call in progress; each of
\* its steps is one store operation more, never an earlier one again; and
\* the call ends with a
\* result or an error after at most 2 store operations for create_event, 1
\* for get_event_by_id, 2 for update_event, 2 for delete_event, 4 for
\* create_rsvp, 2 for get_rsvps_for_event and 1 for delete_rsvp.
C39_CallsComplete ==
    /\ [][\A t \in Tasks :
            pc'[t] # pc[t] =>
                IF pc'[t] # "idle"
                  THEN /\ StoreOperationsDone[pc'[t]] = StoreOperationsDone[pc[t]] + 1
                       /\ pc[t] # "idle" => OperationAt[pc'[t]] = OperationAt[pc[t]]
                  ELSE /\ resp'.task = t
                       /\ resp'.ret.kind # "none"
                       /\ resp'.op = OperationAt[pc[t]]
                       /\ StoreOperationsDone[pc[t]] + 1 <= MostStoreOperations[resp'.op]]_vars
    /\ [][\A t \in Tasks :
            (pc[t] = "idle" /\ resp'.task = t /\ resp'.op \in DOMAIN MostStoreOperations) =>
                /\ pc'[t] = "idle"
                /\ resp'.ret.kind # "none"]_vars
    /\ ~Idle ~> Idle

\* create_rsvp has completed with its result after its fourth store
\* operation, the read-back.
C39_FourOperationsMade ==
    /\ Idle
    /\ Succeeded("create_rsvp")
    /\ resp.ret.body \subseteq rsvps

====
